---- MODULE Spec2Model ----
(***************************************************************************)
(* Conway's Game of Life engine of src/main.rs: the GameOfLife struct, its *)
(* coordinate helpers, the boundary lookup get / is_alive, the neighbour   *)
(* count, the generation update, the Display rendering and the driver loop *)
(* of main.                                                                *)
(***************************************************************************)
EXTENDS Integers, Sequences, FiniteSets

VARIABLES
    width,      \* GameOfLife.width
    height,     \* GameOfLife.height
    wrap,       \* GameOfLife.wrap: "Wrap" or "NoWrap"
    field,      \* GameOfLife.field: Seq(BOOLEAN), row-major, Cell(b) is b
    prev,       \* history: self.field as read by the last update
    field0,     \* history: the field produced by new
    updates,    \* history: number of completed update calls
    pc,         \* position of main ("lib" when the engine is called directly)
    renders,    \* history: number of println!("{}", game) performed by main
    screen,     \* terminal contents after the last clear_screen / println
    lookup,     \* the last get / is_alive call and what it returned
    panicked    \* TRUE once an operation has panicked

vars == <<width, height, wrap, field, prev, field0, updates, pc, renders,
          screen, lookup, panicked>>

----------------------------------------------------------------------------
(* Bounds of the model.                                                    *)

MaxCells == 9
MaxLookupCells == 4
MaxCoord == 4
MaxUpdates == 3
MaxSingle == 5
GliderN == 10
GliderGens == 8

(* usize is 64 bits wide on the build target.                              *)
UsizeBits == 64

WrapModes == {"Wrap", "NoWrap"}
Coords == (0 - MaxCoord)..MaxCoord

----------------------------------------------------------------------------
(* Option<&Cell>: a reference to field[index], or None.  A panic inside    *)
(* the call is the third outcome.                                          *)

Some(i) == [kind |-> "Some", index |-> i]
None == [kind |-> "None", index |-> 0]
Panic == [kind |-> "Panic", index |-> 0]

(* Cell::alive(), Cell::dead(), Cell::is_alive.                             *)
alive == TRUE
dead == FALSE
cell_is_alive(c) == c

(* Vec::get: Some(&v[index]) when index < v.len(), else None.              *)
vec_get(f, i) == IF i < Len(f) THEN Some(i) ELSE None

(* 2^k mod m, by doubling.                                                 *)
RECURSIVE Pow2Mod(_, _)
Pow2Mod(k, m) == IF k = 0 THEN 1 % m ELSE (2 * Pow2Mod(k - 1, m)) % m

(* (v as usize) % m for an isize v: a negative v casts to 2^64 + v.        *)
as_usize_rem(v, m) ==
    IF v >= 0 THEN v % m ELSE (Pow2Mod(UsizeBits, m) + (v % m)) % m

----------------------------------------------------------------------------
(* Coordinate helpers.                                                     *)

(* The coordinates taken against the height instead of the width.          *)
index_to_coords_swapped(i) == <<i % height, i \div height>>

index_to_coords(i) == <<i % width, i \div width>>

index(x, y) == y * width + x

----------------------------------------------------------------------------
(* Boundary lookup on the cell vector f (self.field).                      *)

(* The NoWrap bounds test with > in place of >=.                           *)
get_off_by_one(f, x, y) ==
    IF wrap = "Wrap"
    THEN IF width = 0 \/ height = 0
         THEN Panic
         ELSE vec_get(f, index(as_usize_rem(x + width, width),
                               as_usize_rem(y + height, height)))
    ELSE IF x < 0 \/ x > width \/ y < 0 \/ y > height
         THEN None
         ELSE vec_get(f, index(x, y))

(* The Wrap column without the + width before the cast.                    *)
get_no_wrap_add(f, x, y) ==
    IF wrap = "Wrap"
    THEN IF width = 0 \/ height = 0
         THEN Panic
         ELSE vec_get(f, index(as_usize_rem(x, width),
                               as_usize_rem(y + height, height)))
    ELSE IF x < 0 \/ x >= width \/ y < 0 \/ y >= height
         THEN None
         ELSE vec_get(f, index(x, y))

get(f, x, y) ==
    IF wrap = "Wrap"
    THEN IF width = 0 \/ height = 0
         THEN Panic   \* remainder with a divisor of zero
         ELSE vec_get(f, index(as_usize_rem(x + width, width),
                               as_usize_rem(y + height, height)))
    ELSE IF x < 0 \/ x >= width \/ y < 0 \/ y >= height
         THEN None
         ELSE vec_get(f, index(x, y))

is_alive(f, x, y) ==
    LET r == get(f, x, y)
    IN  IF r.kind = "Some" THEN cell_is_alive(f[r.index + 1]) ELSE FALSE

----------------------------------------------------------------------------
(* Neighbour count of the cell at a linear index.                          *)

Offsets == {<<i, j>> \in (-1..1) \X (-1..1) : i # 0 \/ j # 0}

(* The count without the filter that drops the offset (0, 0).              *)
count_neighbors_with_self(f, i) ==
    LET c == index_to_coords(i)
    IN  Cardinality({o \in (-1..1) \X (-1..1) :
                        is_alive(f, c[1] + o[1], c[2] + o[2])})

count_neighbors(f, i) ==
    LET c == index_to_coords(i)
    IN  Cardinality({o \in Offsets : is_alive(f, c[1] + o[1], c[2] + o[2])})

----------------------------------------------------------------------------
(* Generation update.                                                      *)

(* The match with only overcrowding killing a cell.                        *)
next_cell_no_underpopulation(n, c) ==
    CASE n = 3 -> alive
      [] n > 3 -> dead
      [] OTHER -> c

(* The match of the map closure: neighbours n, current cell c.             *)
next_cell(n, c) ==
    CASE n = 2 -> c
      [] n = 3 -> alive
      [] OTHER -> dead

(* An update that writes each cell into the vector it counts from.         *)
RECURSIVE in_place_from(_, _)
in_place_from(f, i) ==
    IF i = Len(f)
    THEN f
    ELSE in_place_from(
             [f EXCEPT ![i + 1] = next_cell(count_neighbors(f, i), f[i + 1])],
             i + 1)

updated_in_place(f) == in_place_from(f, 0)

(* A collect that loses the last cell.                                     *)
updated_drop_last(f) ==
    [k \in 1..(Len(f) - 1) |-> next_cell(count_neighbors(f, k - 1), f[k])]

(* The collected vector: the clone of f is mapped while every count reads  *)
(* f itself, which is assigned only after collect.                         *)
updated(f) ==
    [k \in 1..Len(f) |-> next_cell(count_neighbors(f, k - 1), f[k])]

----------------------------------------------------------------------------
(* Display for GameOfLife and Cell.                                        *)

glyph(c) == IF c THEN "#" ELSE " "

RECURSIVE fmt_from(_, _)
fmt_from(f, i) ==
    IF i = Len(f)
    THEN <<>>
    ELSE (IF i > 0 /\ i % width = 0 THEN <<"\n">> ELSE <<>>)
         \o <<glyph(f[i + 1])>> \o fmt_from(f, i + 1)

fmt(f) == fmt_from(f, 0)

(* clear_screen(); println!("{}", game).                                   *)
printed(f) == fmt(f) \o <<"\n">>

----------------------------------------------------------------------------
(* Construction.                                                           *)

NoLookup == [op |-> "none", x |-> 0, y |-> 0, res |-> None, alive |-> FALSE]

(* Every vector the random source can produce.                             *)
generate_field(count) == [1..count -> BOOLEAN]

(* The state after GameOfLife::new(w, h, m) drew the cells f.              *)
new_with(w, h, m, f, p) ==
    /\ width = w
    /\ height = h
    /\ wrap = m
    /\ field = f
    /\ prev = f
    /\ field0 = f
    /\ updates = 0
    /\ pc = p
    /\ renders = 0
    /\ screen = <<>>
    /\ lookup = NoLookup
    /\ panicked = FALSE

new(w, h, m, p) == \E f \in generate_field(w * h) : new_with(w, h, m, f, p)

----------------------------------------------------------------------------
(* update, called on the grid.                                             *)

update ==
    /\ prev' = field
    /\ field' = updated(field)
    /\ updates' = updates + 1
    /\ UNCHANGED <<width, height, wrap, field0>>

Step(cap) ==
    /\ pc = "lib"
    /\ ~panicked
    /\ updates < cap
    /\ update
    /\ UNCHANGED <<pc, renders, screen, lookup, panicked>>

(* A direct call of get(x, y) on the grid.                                 *)
(* get takes &self and leaves the grid as it was, so a run makes one       *)
(* lookup: a later one would see the very same grid.                       *)
GetCall(x, y) ==
    /\ pc = "lib"
    /\ ~panicked
    /\ lookup.op = "none"
    /\ lookup' = [op |-> "get", x |-> x, y |-> y, res |-> get(field, x, y),
                  alive |-> FALSE]
    /\ panicked' = (get(field, x, y) = Panic)
    /\ UNCHANGED <<width, height, wrap, field, prev, field0, updates, pc,
                   renders, screen>>

(* A direct call of is_alive(x, y): the inner get, then map / unwrap_or.   *)
IsAliveCall(x, y) ==
    /\ pc = "lib"
    /\ ~panicked
    /\ lookup.op = "none"
    /\ lookup' = [op |-> "is_alive", x |-> x, y |-> y,
                  res |-> get(field, x, y),
                  alive |-> IF get(field, x, y) = Panic
                            THEN FALSE
                            ELSE is_alive(field, x, y)]
    /\ panicked' = (get(field, x, y) = Panic)
    /\ UNCHANGED <<width, height, wrap, field, prev, field0, updates, pc,
                   renders, screen>>

----------------------------------------------------------------------------
(* main: the driver loop.                                                  *)

any_alive(f) == \E k \in 1..Len(f) : cell_is_alive(f[k])

(* A loop that is entered whatever the grid holds.                         *)
loop_always(f) == TRUE

(* The condition of the while loop.                                        *)
loop_cond(f) == any_alive(f)

(* while game.field.iter().any(|c| c.is_alive())                           *)
MainTest ==
    /\ pc = "while"
    /\ pc' = IF loop_cond(field) THEN "render" ELSE "final"
    /\ UNCHANGED <<width, height, wrap, field, prev, field0, updates,
                   renders, screen, lookup, panicked>>

(* clear_screen(); println!("{}", game);                                   *)
MainRender ==
    /\ pc = "render"
    /\ screen' = printed(field)
    /\ renders' = renders + 1
    /\ pc' = "update"
    /\ UNCHANGED <<width, height, wrap, field, prev, field0, updates,
                   lookup, panicked>>

(* game.update();                                                          *)
MainUpdate ==
    /\ pc = "update"
    /\ updates < MaxUpdates
    /\ update
    /\ pc' = "sleep"
    /\ UNCHANGED <<renders, screen, lookup, panicked>>

(* std::thread::sleep(frame period less the time spent, floored at zero)   *)
MainSleep ==
    /\ pc = "sleep"
    /\ pc' = "while"
    /\ UNCHANGED <<width, height, wrap, field, prev, field0, updates,
                   renders, screen, lookup, panicked>>

(* The clear_screen / println after the loop, then main returns.           *)
MainFinalRender ==
    /\ pc = "final"
    /\ screen' = printed(field)
    /\ renders' = renders + 1
    /\ pc' = "done"
    /\ UNCHANGED <<width, height, wrap, field, prev, field0, updates,
                   lookup, panicked>>

----------------------------------------------------------------------------
(* Specifications.                                                         *)

Dims(n) == {d \in (0..n) \X (0..n) : d[1] * d[2] <= n}

(* The engine: any construction, then update calls.                        *)
Init == \E d \in Dims(MaxCells), m \in WrapModes : new(d[1], d[2], m, "lib")

Next == Step(MaxUpdates)

Spec == Init /\ [][Next]_vars

(* Lookups on a constructed grid.                                          *)
NextLookup ==
    \E x \in Coords, y \in Coords : GetCall(x, y) \/ IsAliveCall(x, y)

InitLookup ==
    \E d \in Dims(MaxLookupCells), m \in WrapModes : new(d[1], d[2], m, "lib")

SpecLookup == InitLookup /\ [][NextLookup]_vars

(* main, which constructs a Wrap grid of positive dimensions (30 by 30 in  *)
(* the source, every shape of up to MaxCells cells here).                  *)
InitMain ==
    \E d \in Dims(MaxCells) : d[1] >= 1 /\ d[2] >= 1 /\ new(d[1], d[2], "Wrap", "while")

NextMain ==
    MainTest \/ MainRender \/ MainUpdate \/ MainSleep \/ MainFinalRender

SpecMain == InitMain /\ [][NextMain]_vars

(* A Wrap grid of at least 3 by 3 cells holding one live cell.             *)
one_live(n, k) == [j \in 1..n |-> j = k]

InitSingle ==
    \E w \in 3..MaxSingle, h \in 3..MaxSingle, k \in 1..(MaxSingle * MaxSingle) :
        k <= w * h /\ new_with(w, h, "Wrap", one_live(w * h, k), "lib")

SpecSingle == InitSingle /\ [][Step(1)]_vars

(* The glider  .#.  placed with its corner at (ox, oy) on the torus.       *)
(*             ..#                                                         *)
(*             ###                                                         *)
GliderCells == {<<1, 0>>, <<2, 1>>, <<0, 2>>, <<1, 2>>, <<2, 2>>}

translate(cells, dx, dy, w, h) ==
    {<<(c[1] + dx) % w, (c[2] + dy) % h>> : c \in cells}

field_of(cells, w, h) ==
    [k \in 1..(w * h) |-> <<(k - 1) % w, (k - 1) \div w>> \in cells]

live_cells(f) == {index_to_coords(k - 1) : k \in {j \in 1..Len(f) : f[j]}}

InitGlider ==
    \E ox \in 0..(GliderN - 1), oy \in 0..(GliderN - 1) :
        new_with(GliderN, GliderN, "Wrap",
                 field_of(translate(GliderCells, ox, oy, GliderN, GliderN),
                          GliderN, GliderN),
                 "lib")

SpecGlider == InitGlider /\ [][Step(GliderGens)]_vars

----------------------------------------------------------------------------
(* Reference definitions the properties compare the code against.          *)

(* ((v mod m) + m) mod m                                                   *)
RefWrap(v, m) == ((v % m) + m) % m

InBounds(x, y) == x >= 0 /\ x < width /\ y >= 0 /\ y < height

(* Whether the boundary policy resolves (x, y) to a live cell of f.        *)
RefLive(f, x, y) ==
    IF wrap = "Wrap"
    THEN f[RefWrap(y, height) * width + RefWrap(x, width) + 1]
    ELSE InBounds(x, y) /\ f[y * width + x + 1]

RefCount(f, i) ==
    Cardinality({o \in Offsets :
                    RefLive(f, (i % width) + o[1], (i \div width) + o[2])})

LiveCount(f) == Cardinality({k \in 1..Len(f) : f[k]})

----------------------------------------------------------------------------
(* C1: after an update of a grid of positive dimensions, in either         *)
(* boundary mode, the cell at every index i is alive exactly when its      *)
(* live-neighbour count in the pre-update grid is 3, or is 2 and the cell  *)
(* was alive in the pre-update grid; every count is taken from the         *)
(* pre-update grid.                                                        *)
C1_UpdateB3S23 ==
    (updates >= 1 /\ width >= 1 /\ height >= 1) =>
        /\ Len(field) = Len(prev)
        /\ \A i \in 0..(Len(prev) - 1) :
               field[i + 1] <=> \/ count_neighbors(prev, i) = 3
                                \/ count_neighbors(prev, i) = 2 /\ prev[i + 1]

(* An update whose result differs from what writing the cells in place     *)
(* would give, with a birth, a survival on 2 and a death in the same step. *)
C1_Witness ==
    /\ updates >= 1
    /\ width >= 2
    /\ height >= 2
    /\ field # updated_in_place(prev)
    /\ \E i \in 1..Len(prev) : ~prev[i] /\ field[i]
    /\ \E i \in 1..Len(prev) :
           prev[i] /\ field[i] /\ count_neighbors(prev, i - 1) = 2
    /\ \E i \in 1..Len(prev) : prev[i] /\ ~field[i]

(* C6: on a Wrap grid of at least 3 by 3 cells holding exactly one live    *)
(* cell, one update leaves every cell dead.                                *)
C6_SingleCellDies ==
    (/\ updates = 1
     /\ wrap = "Wrap"
     /\ width >= 3
     /\ height >= 3
     /\ LiveCount(prev) = 1) => LiveCount(field) = 0

(* The single live cell sat in the last column of the last row of a        *)
(* non-square grid, so its neighbourhood wraps on both axes.               *)
C6_Witness ==
    /\ updates = 1
    /\ wrap = "Wrap"
    /\ width >= 3
    /\ height >= 3
    /\ width # height
    /\ LiveCount(prev) = 1
    /\ prev[Len(prev)]

(* C7: on the square Wrap grid seeded with the 5-cell glider at any        *)
(* position, after every block of 4 updates the live cells are the         *)
(* starting cells translated by (1,1) per block modulo the grid size, and  *)
(* there are 5 of them; from every generation on the way, four more        *)
(* updates translate the live cells by (1,1).                              *)
C7_GliderTranslates ==
    /\ (updates % 4 = 0) =>
           /\ live_cells(field) =
                  translate(live_cells(field0), updates \div 4,
                            updates \div 4, width, height)
           /\ LiveCount(field) = 5
    /\ live_cells(updated(updated(updated(updated(field))))) =
           translate(live_cells(field), 1, 1, width, height)

(* Two blocks of 4 updates of a glider that started across the right and   *)
(* bottom edges of the grid.                                               *)
C7_Witness ==
    /\ updates = 8
    /\ width = GliderN
    /\ \E c \in live_cells(field0) : c[1] = 0
    /\ \E c \in live_cells(field0) : c[1] = width - 1
    /\ \E c \in live_cells(field0) : c[2] = 0
    /\ \E c \in live_cells(field0) : c[2] = height - 1

(* C8: in every grid of positive dimensions reached by construction and    *)
(* updates, in either boundary mode, count_neighbors(i) is in 0..8 and is  *)
(* the number of the 8 offsets that the boundary policy resolves to a live *)
(* cell.                                                                   *)
C8_NeighborCount ==
    (width >= 1 /\ height >= 1) =>
        \A i \in 0..(Len(field) - 1) :
            /\ count_neighbors(field, i) \in 0..8
            /\ count_neighbors(field, i) = RefCount(field, i)

(* After an update, a Wrap grid narrower than 3 in which a cell counts     *)
(* more live neighbours than the grid has live cells: offsets coincide.    *)
C8_Witness ==
    /\ updates >= 1
    /\ wrap = "Wrap"
    /\ width >= 1
    /\ width <= 2
    /\ height >= 1
    /\ \E i \in 0..(Len(field) - 1) :
           count_neighbors(field, i) > LiveCount(field)

(* C9: index and index_to_coords are mutual inverses on the grid, and      *)
(* index(x, y) is y*width + x.                                             *)
C9_IndexRoundTrip ==
    (width >= 1 /\ height >= 1) =>
        /\ \A i \in 0..(width * height - 1) :
               index(index_to_coords(i)[1], index_to_coords(i)[2]) = i
        /\ \A x \in 0..(width - 1), y \in 0..(height - 1) :
               /\ index_to_coords(index(x, y)) = <<x, y>>
               /\ index(x, y) = y * width + x

(* A grid with several rows and columns that is not square.                *)
C9_Witness ==
    /\ width >= 2
    /\ height >= 2
    /\ width # height
    /\ updates >= 1

(* C10: in every state reached from new by update calls the cell sequence  *)
(* has width*height elements, and no step changes width, height or the     *)
(* boundary mode.                                                          *)
C10_ShapeFixed ==
    /\ [](Len(field) = width * height)
    /\ [][width' = width /\ height' = height /\ wrap' = wrap]_vars

(* An update that changed the cells of a grid of several cells.            *)
C10_Witness ==
    /\ updates >= 2
    /\ Len(field) >= 2
    /\ field # prev
    /\ prev # field0

----------------------------------------------------------------------------
(* C3: in NoWrap mode get(x, y) is None and is_alive(x, y) is false when   *)
(* x or y lies outside the grid, and otherwise get(x, y) is the cell       *)
(* stored at row-major index y*width + x.                                  *)
C3_ClipLookup ==
    (lookup.op # "none" /\ wrap = "NoWrap") =>
        IF InBounds(lookup.x, lookup.y)
        THEN /\ lookup.res = Some(lookup.y * width + lookup.x)
             /\ lookup.op = "is_alive" =>
                    lookup.alive = field[lookup.y * width + lookup.x + 1]
        ELSE /\ lookup.res = None
             /\ lookup.alive = FALSE

(* is_alive one column past the right edge, on a row that has a live cell  *)
(* in the row below at column 0 (the cell row-major indexing would hit).   *)
C3_Witness ==
    /\ lookup.op = "is_alive"
    /\ wrap = "NoWrap"
    /\ width >= 2
    /\ height >= 2
    /\ lookup.x = width
    /\ lookup.y = 0
    /\ field[width + 1]
    /\ lookup.res = None

(* C2: in Wrap mode, for every integer x and y, get(x, y) is the cell at   *)
(* column ((x mod width) + width) mod width and row ((y mod height) +      *)
(* height) mod height, never None, and get(x, y), get(x + width, y) and    *)
(* get(x, y + height) are the same cell.                                   *)
C2_WrapAllIntegers ==
    (lookup.op # "none" /\ wrap = "Wrap" /\ width >= 1 /\ height >= 1) =>
        /\ lookup.res = Some(RefWrap(lookup.y, height) * width
                              + RefWrap(lookup.x, width))
        /\ lookup.res = get(field, lookup.x + width, lookup.y)
        /\ lookup.res = get(field, lookup.x, lookup.y + height)

(* C5: construction with a width or height of zero produces no grid, and   *)
(* no operation on a constructed grid panics.                              *)
C5_ZeroRejectedNoPanic ==
    /\ width >= 1
    /\ height >= 1
    /\ ~panicked

----------------------------------------------------------------------------
(* C4: main renders the current generation before each update, updates     *)
(* only a grid that had a live cell at the loop head, leaves the loop at   *)
(* the first tested grid without a live cell, then renders once more and   *)
(* updates no further; a grid dead at construction is rendered once and    *)
(* never updated.                                                          *)
C4_DriverLoop ==
    /\ pc = "while" => renders = updates
    /\ pc \in {"render", "update"} => any_alive(field)
    /\ pc = "render" => renders = updates
    /\ pc = "update" => renders = updates + 1 /\ screen = printed(field)
    /\ pc = "sleep" =>
           renders = updates /\ any_alive(prev) /\ screen = printed(prev)
    /\ pc \in {"final", "done"} => ~any_alive(field)
    /\ pc = "final" => renders = updates
    /\ pc = "done" => renders = updates + 1 /\ screen = printed(field)
    /\ (pc = "done" /\ ~any_alive(field0)) => renders = 1 /\ updates = 0

(* main returned after a grid that was alive at construction died on its   *)
(* second update: three renders, two updates.                              *)
C4_Witness ==
    /\ pc = "done"
    /\ any_alive(field0)
    /\ updates = 2
    /\ renders = 3

====
